---- MODULE Spec2Model ----
(***************************************************************************)
(* A model of the COVID-19 dashboard script (src/COVID-19/app.py).         *)
(*                                                                         *)
(* The script is run top to bottom on every user interaction (a render     *)
(* cycle).  The model follows one run section by section (pc), with the    *)
(* three memoised loaders, the clock the memoisation reads, the requests   *)
(* sent to the remote API, and the tables the script builds.               *)
(*                                                                         *)
(* Three specifications:                                                   *)
(*   Spec        the page: render cycles over answers that reach every     *)
(*               path of the script, at one instant;                       *)
(*   SpecCache   render cycles with the clock, for the loaders' cache;     *)
(*   SpecSeries  the time-series transforms (aggregation, daily delta,     *)
(*               moving average) applied to enumerated timelines.          *)
(***************************************************************************)
EXTENDS Integers, Sequences, FiniteSets, TLC

VARIABLES
    pc,         \* the section of the script the run has reached
    now,        \* wall clock, in seconds
    cache,      \* st.cache_data store: key -> [value, stored]
    net,        \* requests sent to the API in this render cycle, in order
    country,    \* sidebar: selected country
    metric,     \* sidebar: metric_option
    ma_window,  \* sidebar: moving-average window
    df,         \* the summary DataFrame: [columns, rows]
    hist,       \* the historical JSON the loader returned
    ts,         \* the cumulative series: sequence of [date, value]
    df_ts,      \* the derived table: sequence of [date, value, new, ma]
    decomp,     \* decomposition: "none" | "ok" | "failed"
    csv,        \* the exported CSV: [header, rows]
    page        \* what the run has put on the page, in order

vars == <<pc, now, cache, net, country, metric, ma_window, df, hist, ts,
          df_ts, decomp, csv, page>>

(***************************************************************************)
(* Bounds of the model and constants of the program.                       *)
(***************************************************************************)
MaxVal == 1
MaxTick == 2
MaxWindowTried == 3

TTL == 3600
SliderMin == 1
SliderMax == 30
SliderDefault == 7
DecompMinLen == 30
MinPeriods == 1
TickSeconds == 1800

(***************************************************************************)
(* Date keys.  A key of a timeline is a string; it is modelled as the      *)
(* sequence of its characters, so that parsing is a computation.           *)
(***************************************************************************)
Digits == {"0", "1", "2", "3", "4", "5", "6", "7", "8", "9"}

DigitVal(c) ==
    CASE c = "0" -> 0 [] c = "1" -> 1 [] c = "2" -> 2 [] c = "3" -> 3
      [] c = "4" -> 4 [] c = "5" -> 5 [] c = "6" -> 6 [] c = "7" -> 7
      [] c = "8" -> 8 [] c = "9" -> 9

IsDigits(s) == \A i \in 1..Len(s) : s[i] \in Digits

NumVal(s) ==
    IF Len(s) = 1 THEN DigitVal(s[1])
    ELSE 10 * DigitVal(s[1]) + DigitVal(s[2])

\* directive %m: 1[0-2]|0[1-9]|[1-9]
MatchMonth(s) ==
    /\ Len(s) \in {1, 2}
    /\ IsDigits(s)
    /\ NumVal(s) \in 1..12

\* directive %d: 3[01]|[12]\d|0[1-9]|[1-9]| [1-9]
MatchDay(s) ==
    \/ /\ Len(s) \in {1, 2}
       /\ IsDigits(s)
       /\ NumVal(s) \in 1..31
    \/ /\ Len(s) = 2
       /\ s[1] = " "
       /\ s[2] \in Digits \ {"0"}

DayVal(s) == IF s[1] = " " THEN DigitVal(s[2]) ELSE NumVal(s)

\* directive %y: \d\d
MatchYear(s) == Len(s) = 2 /\ IsDigits(s)

\* %y: 69..99 are 1969..1999, 00..68 are 2000..2068
YearVal(s) == IF NumVal(s) >= 69 THEN 1900 + NumVal(s) ELSE 2000 + NumVal(s)

IsLeap(y) == (y % 4 = 0 /\ y % 100 # 0) \/ y % 400 = 0

DaysInMonth(y, m) ==
    IF m = 2 THEN (IF IsLeap(y) THEN 29 ELSE 28)
    ELSE IF m \in {4, 6, 9, 11} THEN 30 ELSE 31

SlashPos(key) == {i \in 1..Len(key) : key[i] = "/"}

\* A calendar date as one integer, ordered as the dates are.
Timestamp(y, m, d) == (y * 12 + (m - 1)) * 31 + (d - 1)

\* pd.to_datetime(key, format="%m/%d/%y"): the whole key must match.
ParseDate(key) ==
    LET sl == SlashPos(key) IN
    IF Cardinality(sl) # 2 THEN [ok |-> FALSE, date |-> 0]
    ELSE
        LET p1 == CHOOSE i \in sl : \A j \in sl : i <= j
            p2 == CHOOSE i \in sl : \A j \in sl : j <= i
            ms == SubSeq(key, 1, p1 - 1)
            ds == SubSeq(key, p1 + 1, p2 - 1)
            ys == SubSeq(key, p2 + 1, Len(key))
        IN  IF /\ MatchMonth(ms)
               /\ MatchDay(ds)
               /\ MatchYear(ys)
               /\ DayVal(ds) <= DaysInMonth(YearVal(ys), NumVal(ms))
            THEN [ok |-> TRUE,
                  date |-> Timestamp(YearVal(ys), NumVal(ms), DayVal(ds))]
            ELSE [ok |-> FALSE, date |-> 0]

(***************************************************************************)
(* JSON objects are functions from their keys; {} is the empty function.   *)
(***************************************************************************)
EmptyDict == <<>>

\* d.get(k, default)
Get(d, k, default) == IF k \in DOMAIN d THEN d[k] ELSE default

\* Python truthiness of a dict
Truthy(d) == DOMAIN d # {}

(***************************************************************************)
(* Nullable numbers of a DataFrame cell: NaN or a number.                  *)
(***************************************************************************)
NaN == [nan |-> TRUE, v |-> 0]

Num(x) == [nan |-> FALSE, v |-> x]

\* Series.fillna(v) on one cell
FillNa(x, v) == IF x.nan THEN v ELSE x.v

(***************************************************************************)
(* Time-Series Normalizer.                                                 *)
(***************************************************************************)
\* lines 141-150: the metric series of the countries that have one
RECURSIVE HistList(_, _)
HistList(hist_json, m) ==
    IF Len(hist_json) = 0 THEN <<>>
    ELSE
        LET c == Head(hist_json)
            timeline == Get(c, "timeline", EmptyDict)
            metric_series ==
                IF Truthy(timeline) THEN Get(timeline, m, EmptyDict)
                ELSE EmptyDict
        IN  (IF Truthy(metric_series) THEN <<metric_series>> ELSE <<>>)
                \o HistList(Tail(hist_json), m)

\* pd.concat(axis=1): the row index is the union of the series' keys
ConcatIndex(list) == UNION {DOMAIN list[i] : i \in 1..Len(list)}

\* one cell of the concatenated frame: NaN where the series has no such key
ConcatCell(s, k) == IF k \in DOMAIN s THEN Num(s[k]) ELSE NaN

\* .fillna(0).sum(axis=1) for the row of key k, over the first n columns
RECURSIVE RowSum(_, _, _)
RowSum(list, k, n) ==
    IF n = 0 THEN 0
    ELSE RowSum(list, k, n - 1) + FillNa(ConcatCell(list[n], k), 0)

\* mutant: keys that do not parse are let through (errors are not raised)
IndexParses_Lenient(keys) == TRUE

\* pd.to_datetime(index, format=...) raises unless every key parses
IndexParses(keys) == \A k \in keys : ParseDate(k).ok

\* mutant: the index is sorted descending
RECURSIVE SortedOrders_Descending(_)
SortedOrders_Descending(rows) ==
    IF rows = {} THEN {<<>>}
    ELSE
        LET first == CHOOSE r \in rows : \A q \in rows : r.date >= q.date
            firsts == {r \in rows : r.date = first.date}
        IN  UNION {{<<r>> \o rest :
                       rest \in SortedOrders_Descending(rows \ {r})} :
                   r \in firsts}

\* The orders sort_index() may leave the keys in: ascending by date; the
\* order of keys of equal date is the sort algorithm's.
\* rows are [date, value] records; the result is a set of sequences of rows.
RECURSIVE SortedOrders(_)
SortedOrders(rows) ==
    IF rows = {} THEN {<<>>}
    ELSE
        LET first == CHOOSE r \in rows : \A q \in rows : r.date <= q.date
            firsts == {r \in rows : r.date = first.date}
        IN  UNION {{<<r>> \o rest : rest \in SortedOrders(rows \ {r})} :
                   r \in firsts}

\* ts.index = pd.to_datetime(ts.index, ...); ts = ts.sort_index()
SortIndex(s) ==
    LET rows == {[key |-> k, date |-> ParseDate(k).date, value |-> s[k]] :
                    k \in DOMAIN s}
    IN  {[i \in 1..Len(o) |-> [date |-> o[i].date, value |-> o[i].value]] :
            o \in SortedOrders(rows)}

\* mutant: the empty list is not tested for; pd.concat([]) raises
NormalizeGlobal_NoEmptyCheck(hist_json, m) ==
    LET df_hist_list == HistList(hist_json, m)
        index == ConcatIndex(df_hist_list)
        summed == [k \in index |-> RowSum(df_hist_list, k, Len(df_hist_list))]
    IN  IF Len(df_hist_list) = 0 \/ ~IndexParses(index)
        THEN [kind |-> "error", series |-> {<<>>}]
        ELSE [kind |-> "ok", series |-> SortIndex(summed)]

\* lines 141-161: the Global series; the outcomes the section may end in
NormalizeGlobal(hist_json, m) ==
    LET df_hist_list == HistList(hist_json, m)
        index == ConcatIndex(df_hist_list)
        summed == [k \in index |-> RowSum(df_hist_list, k, Len(df_hist_list))]
    IN  IF Len(df_hist_list) = 0 THEN [kind |-> "nodata", series |-> {<<>>}]
        ELSE IF ~IndexParses(index) THEN [kind |-> "error", series |-> {<<>>}]
        ELSE [kind |-> "ok", series |-> SortIndex(summed)]

\* lines 165-174: one country's series
NormalizeCountry(h, m) ==
    LET timeline == Get(h, "timeline", EmptyDict)
        metric_series == Get(timeline, m, EmptyDict)
    IN  IF ~IndexParses(DOMAIN metric_series)
        THEN [kind |-> "error", series |-> {<<>>}]
        ELSE [kind |-> "ok", series |-> SortIndex(metric_series)]

(***************************************************************************)
(* Derived-Metrics Calculator.                                             *)
(***************************************************************************)
\* mutant: the first difference is taken against 0
Diff_FromZero(values) ==
    [i \in 1..Len(values) |->
        IF i = 1 THEN Num(values[1]) ELSE Num(values[i] - values[i - 1])]

\* Series.diff(): NaN first, then the difference with the previous value
Diff(values) ==
    [i \in 1..Len(values) |->
        IF i = 1 THEN NaN ELSE Num(values[i] - values[i - 1])]

\* mutant: the window holds one row more
RECURSIVE RollState_OneMore(_, _, _)
RollState_OneMore(x, w, i) ==
    IF i = 0 THEN [sum |-> 0, nobs |-> 0]
    ELSE
        LET p == RollState_OneMore(x, w, i - 1) IN
        IF i > w + 1
        THEN [sum |-> p.sum + x[i] - x[i - w - 1], nobs |-> p.nobs]
        ELSE [sum |-> p.sum + x[i], nobs |-> p.nobs + 1]

\* rolling(window=w, min_periods=1): the running sum and count after row i,
\* adding the entering value and removing the one that leaves the window
RECURSIVE RollState(_, _, _)
RollState(x, w, i) ==
    IF i = 0 THEN [sum |-> 0, nobs |-> 0]
    ELSE
        LET p == RollState(x, w, i - 1) IN
        IF i > w
        THEN [sum |-> p.sum + x[i] - x[i - w], nobs |-> p.nobs]
        ELSE [sum |-> p.sum + x[i], nobs |-> p.nobs + 1]

\* .mean(): the exact quotient num/den, or NaN below min_periods
RollingMean(x, w) ==
    [i \in 1..Len(x) |->
        LET st == RollState(x, w, i) IN
        IF st.nobs >= MinPeriods
        THEN [nan |-> FALSE, num |-> st.sum, den |-> st.nobs]
        ELSE [nan |-> TRUE, num |-> 0, den |-> 1]]

\* lines 179-181
Derive(series, w) ==
    LET value == [i \in 1..Len(series) |-> series[i].value]
        d == Diff(value)
        new == [i \in 1..Len(series) |-> FillNa(d[i], 0)]
        ma == RollingMean(new, w)
    IN  [i \in 1..Len(series) |->
            [date |-> series[i].date, value |-> value[i],
             new |-> new[i], ma |-> ma[i]]]

\* mutant: a series of exactly 30 rows is not decomposed
DecompEligible_Strict(n) == n > DecompMinLen

\* line 202
DecompEligible(n) == n >= DecompMinLen

(***************************************************************************)
(* Inputs: what the remote API may answer.                                 *)
(***************************************************************************)
DigitChar(n) ==
    CASE n = 0 -> "0" [] n = 1 -> "1" [] n = 2 -> "2" [] n = 3 -> "3"
      [] n = 4 -> "4" [] n = 5 -> "5" [] n = 6 -> "6" [] n = 7 -> "7"
      [] n = 8 -> "8" [] n = 9 -> "9"

Dec(n) ==
    IF n < 10 THEN <<DigitChar(n)>>
    ELSE <<DigitChar(n \div 10), DigitChar(n % 10)>>

Dec2(n) == <<DigitChar(n \div 10), DigitChar(n % 10)>>

\* "M/D/YY" as the API writes it, and the same date zero-padded
ApiKey(m, d, yy) == Dec(m) \o <<"/">> \o Dec(d) \o <<"/">> \o Dec2(yy)

PaddedKey(m, d, yy) == Dec2(m) \o <<"/">> \o Dec2(d) \o <<"/">> \o Dec2(yy)

\* "2021-01-02"
IsoKey == <<"2", "0", "2", "1", "-", "0", "1", "-", "0", "2">>

\* the cumulative counts the enumerated timelines take
Values == 0..MaxVal

\* the date keys of the enumerated timelines: days as the API writes them,
\* and the first of them also zero-padded
MixedKeys == {ApiKey(1, 1, 21), PaddedKey(1, 1, 21), ApiKey(1, 2, 21)}

PlainKeys == {ApiKey(1, 1, 21), ApiKey(1, 2, 21), ApiKey(1, 3, 21)}

\* every timeline over some of the keys
SeriesSet(keys) == UNION {[ks -> Values] : ks \in SUBSET keys}

CountryObject(name, cases) ==
    [country |-> name, timeline |-> [cases |-> cases]]

\* a timeline of n consecutive days
LongValue(d) == d * d

LongSeries(n) == [k \in {ApiKey(1, d, 21) : d \in 1..n} |->
                    LongValue(DayVal(SubSeq(k, 3, Len(k) - 3)))]

\* {"1/1/21":10} and {"1/1/21":5,"1/2/21":8}
ExampleGlobal ==
    <<CountryObject("A", [k \in {ApiKey(1, 1, 21)} |-> 10]),
      CountryObject("B", [k \in {ApiKey(1, 1, 21), ApiKey(1, 2, 21)} |->
                            IF k = ApiKey(1, 1, 21) THEN 5 ELSE 8])>>

LongGlobal(n) == <<CountryObject("A", LongSeries(n))>>

\* the Global historical answers the transforms are applied to
SeriesInputs ==
    {<<CountryObject("A", a), CountryObject("B", b)>> :
        a \in SeriesSet(MixedKeys), b \in SeriesSet(MixedKeys)}
    \cup {<<CountryObject("A", a), CountryObject("B", b)>> :
        a \in SeriesSet(PlainKeys), b \in SeriesSet(PlainKeys)}
    \cup {ExampleGlobal, LongGlobal(DecompMinLen - 1), LongGlobal(DecompMinLen),
          LongGlobal(DecompMinLen + 1)}

\* line 54: the slider's range; the windows the model tries
Windows == (SliderMin..MaxWindowTried) \cup {SliderDefault, SliderMax}

EmptyDF == [columns |-> <<>>, rows |-> <<>>]

NoCsv == [header |-> <<>>, rows |-> <<>>]

(***************************************************************************)
(* SpecSeries: the transforms applied to enumerated Global answers.        *)
(***************************************************************************)
InitSeries ==
    /\ pc = "series"
    /\ now = 0
    /\ cache = <<>>
    /\ net = <<>>
    /\ country = "Global"
    /\ metric = "cases"
    /\ ma_window = SliderDefault
    /\ df = EmptyDF
    /\ hist \in SeriesInputs
    /\ ts = <<>>
    /\ df_ts = <<>>
    /\ decomp = "none"
    /\ csv = NoCsv
    /\ page = <<>>

\* lines 141-158 applied to the answer
SeriesNormalize ==
    /\ pc = "series"
    /\ LET r == NormalizeGlobal(hist, metric) IN
        /\ \E s \in r.series : ts' = s
        /\ pc' = IF r.kind = "ok" THEN "normalized" ELSE r.kind
    /\ UNCHANGED <<now, cache, net, country, metric, ma_window, df, hist,
                   df_ts, decomp, csv, page>>

\* lines 179-181 applied to the series, for a window of the slider
SeriesDerive ==
    /\ pc = "normalized"
    /\ \E w \in Windows :
        /\ ma_window' = w
        /\ df_ts' = Derive(ts, w)
    /\ pc' = "derived"
    /\ UNCHANGED <<now, cache, net, country, metric, df, hist, ts, decomp,
                   csv, page>>

NextSeries == SeriesNormalize \/ SeriesDerive

SpecSeries == InitSeries /\ [][NextSeries]_vars

(***************************************************************************)
(* The memoised loaders (lines 15-36).                                     *)
(***************************************************************************)
\* (endpoint, country, lastdays): the arguments a loader is memoised on
SummaryKey == <<"countries">>

GlobalKey(lastdays) == <<"historical", lastdays>>

CountryKey(c, lastdays) == <<"historical", c, lastdays>>

\* mutant: an entry is served whatever its age
Live_NoExpiry(c, key, t) == key \in DOMAIN c

\* an entry is served while it is younger than ttl
Live(c, key, t) == key \in DOMAIN c /\ t < c[key].stored + TTL

Store(c, key, v, t) ==
    [x \in DOMAIN c \cup {key} |->
        IF x = key THEN [value |-> v, stored |-> t] ELSE c[x]]

\* requests.get(url, timeout=30); raise_for_status(); json()
Failures == {"http_status", "transport", "timeout"}

Answers(bodies, none) ==
    {[status |-> "ok", body |-> b] : b \in bodies}
        \cup {[status |-> f, body |-> none] : f \in Failures}

\* a call of a memoised loader: the entry if it is live, else one request
CachedCall(key, answers) ==
    IF Live(cache, key, now)
    THEN {[hit |-> TRUE, status |-> "ok", value |-> cache[key].value]}
    ELSE {[hit |-> FALSE, status |-> a.status, value |-> a.body] :
             a \in answers}

\* the request log and the store after the call
NetAfter(key, o) ==
    IF o.hit THEN net ELSE Append(net, [key |-> key, status |-> o.status])

CacheAfter(key, o) ==
    IF ~o.hit /\ o.status = "ok" THEN Store(cache, key, o.value, now)
    ELSE cache

(***************************************************************************)
(* The summary table.                                                      *)
(***************************************************************************)
Range(f) == {f[i] : i \in DOMAIN f}

SummaryRow(name, n, iso) ==
    [country |-> name, cases |-> 100 * n, deaths |-> 5 * n,
     recovered |-> 80 * n, active |-> 15 * n, population |-> 1000 * n,
     tests |-> 200 * n, continent |-> "X", countryInfo |-> [iso2 |-> iso]]

FullColumns ==
    <<"country", "cases", "deaths", "recovered", "active", "population",
      "tests", "continent", "countryInfo">>

BareColumns ==
    <<"country", "cases", "deaths", "recovered", "active", "population">>

Restrict(row, cols) == [c \in Range(cols) |-> row[c]]

\* the summary answers: two countries with every column; one country with
\* the required columns only
SummaryTables ==
    {[columns |-> FullColumns,
      rows |-> <<SummaryRow("A", 1, "AA"), SummaryRow("B", 2, "BB")>>],
     [columns |-> BareColumns,
      rows |-> <<Restrict(SummaryRow("A", 1, "AA"), BareColumns)>>]}

\* line 50
CountryList(d) == {d.rows[i]["country"] : i \in 1..Len(d.rows)}

\* line 53
Metrics == {"cases", "deaths", "recovered", "tests"}

\* lines 113-117: df['iso2'] = ... (the test of line 113 reads row 0)
WithIso2(d) ==
    LET hasInfo == "countryInfo" \in Range(d.columns) /\ Len(d.rows) > 0
        iso(row) == IF hasInfo THEN Get(row["countryInfo"], "iso2", "None")
                    ELSE "None"
    IN  [columns |-> IF "iso2" \in Range(d.columns) THEN d.columns
                     ELSE Append(d.columns, "iso2"),
         rows |-> [i \in 1..Len(d.rows) |->
                     [c \in DOMAIN d.rows[i] \cup {"iso2"} |->
                         IF c = "iso2" THEN iso(d.rows[i])
                         ELSE d.rows[i][c]]]]

\* line 221: df.to_csv(index=False): the header row, then a row per row
ToCsv(d) ==
    [header |-> d.columns,
     rows |-> [i \in 1..Len(d.rows) |->
                 [j \in 1..Len(d.columns) |-> d.rows[i][d.columns[j]]]]]

(***************************************************************************)
(* The historical answers.  One answer holds a timeline per metric, so the *)
(* metric selector reaches every path of the time-series section.          *)
(***************************************************************************)
ShortSeries ==
    [k \in {ApiKey(1, 2, 21), PaddedKey(1, 1, 21)} |->
        IF k = PaddedKey(1, 1, 21) THEN 1 ELSE 3]

BadSeries ==
    [k \in {ApiKey(1, 1, 21), IsoKey} |-> IF k = IsoKey THEN 2 ELSE 1]

\* cases: 30 days; deaths: 29 days; recovered: a key in another format
LongTimeline ==
    [cases |-> LongSeries(DecompMinLen),
     deaths |-> LongSeries(DecompMinLen - 1),
     recovered |-> BadSeries]

\* cases: two days; deaths: an empty mapping; recovered: absent
ShortTimeline == [cases |-> ShortSeries, deaths |-> EmptyDict]

CountryTimelines == {LongTimeline, ShortTimeline}

\* the answers for one country: {'country': c, 'timeline': {...}}
CountryBodies(c, timelines) ==
    {[country |-> c, timeline |-> t] : t \in timelines}

GlobalBodies ==
    {<<[country |-> "A", timeline |-> LongTimeline],
       [country |-> "B", timeline |-> ShortTimeline],
       [country |-> "C"]>>,
     <<[country |-> "A", timeline |-> ShortTimeline],
       [country |-> "B", timeline |-> EmptyDict]>>}

\* the reasons seasonal_decompose or asfreq may raise with
DecompErrors == {"ValueError"}

(***************************************************************************)
(* Spec: the page.  One render cycle runs the script's sections in order.  *)
(***************************************************************************)
Init ==
    /\ pc = "start"
    /\ now = 0
    /\ cache = <<>>
    /\ net = <<>>
    /\ country = "Global"
    /\ metric = "cases"
    /\ ma_window = SliderDefault
    /\ df = EmptyDF
    /\ hist = <<>>
    /\ ts = <<>>
    /\ df_ts = <<>>
    /\ decomp = "none"
    /\ csv = NoCsv
    /\ page = <<>>

\* mutant: the run goes on after the error message
AfterSummary_NoStop(status) == "render"

\* lines 40-44: st.stop() ends the run when the summary cannot be loaded
AfterSummary(status) == IF status = "ok" THEN "render" ELSE "stopped"

\* lines 38-44
LoadSummaryFrom(tables) ==
    /\ pc = "start"
    /\ \E o \in CachedCall(SummaryKey, Answers(tables, EmptyDF)) :
        /\ net' = NetAfter(SummaryKey, o)
        /\ cache' = CacheAfter(SummaryKey, o)
        /\ df' = o.value
        /\ page' = IF o.status = "ok" THEN page
                   ELSE Append(page, <<"error", "summary", o.status>>)
        /\ pc' = AfterSummary(o.status)
    /\ UNCHANGED <<now, country, metric, ma_window, hist, ts, df_ts, decomp,
                   csv>>

\* lines 46-127: the sidebar, the KPIs, the correlation matrix, the scatter
\* plot and the map
RenderSummaryWith(metrics, windows) ==
    /\ pc = "render"
    /\ country' \in {"Global"} \cup CountryList(df)
    /\ metric' \in metrics
    /\ ma_window' \in windows
    /\ df' = WithIso2(df)
    /\ page' = page \o <<<<"sidebar">>, <<"kpi">>, <<"corr">>, <<"scatter">>,
                         <<"map">>>>
    /\ pc' = "historical"
    /\ UNCHANGED <<now, cache, net, hist, ts, df_ts, decomp, csv>>

\* lines 133-161
LoadHistoricalGlobalFrom(bodies) ==
    /\ pc = "historical"
    /\ country = "Global"
    /\ \E o \in CachedCall(GlobalKey("all"), Answers(bodies, <<>>)) :
        LET r == IF o.status = "ok" THEN NormalizeGlobal(o.value, metric)
                 ELSE [kind |-> "error", series |-> {<<>>}]
        IN  /\ net' = NetAfter(GlobalKey("all"), o)
            /\ cache' = CacheAfter(GlobalKey("all"), o)
            /\ hist' = o.value
            /\ ts' \in r.series
            /\ page' = page \o <<<<"header", "timeseries">>>> \o
                  (IF r.kind = "nodata" THEN <<<<"info", "no_historical">>>>
                   ELSE IF r.kind = "error"
                   THEN <<<<"error", "historical",
                            IF o.status = "ok" THEN "format" ELSE o.status>>>>
                   ELSE <<>>)
    /\ pc' = "timeseries"
    /\ UNCHANGED <<now, country, metric, ma_window, df, df_ts, decomp, csv>>

\* lines 162-174
LoadHistoricalCountryFrom(timelines) ==
    /\ pc = "historical"
    /\ country # "Global"
    /\ \E o \in CachedCall(CountryKey(country, "all"),
                           Answers(CountryBodies(country, timelines),
                                   <<>>)) :
        LET r == IF o.status = "ok" THEN NormalizeCountry(o.value, metric)
                 ELSE [kind |-> "error", series |-> {<<>>}]
        IN  /\ net' = NetAfter(CountryKey(country, "all"), o)
            /\ cache' = CacheAfter(CountryKey(country, "all"), o)
            /\ hist' = o.value
            /\ ts' \in r.series
            /\ page' = page \o <<<<"header", "timeseries">>>> \o
                  (IF r.kind = "error"
                   THEN <<<<"error", "historical",
                            IF o.status = "ok" THEN "format" ELSE o.status>>>>
                   ELSE <<>>)
    /\ pc' = "timeseries"
    /\ UNCHANGED <<now, country, metric, ma_window, df, df_ts, decomp, csv>>

\* lines 176-216: the notice, or the derived table, the chart and, for a
\* series long enough, the decomposition (a library call that may raise)
RenderTimeSeries ==
    /\ pc = "timeseries"
    /\ IF Len(ts) = 0
       THEN /\ page' = Append(page, <<"info", "no_timeseries">>)
            /\ UNCHANGED <<df_ts, decomp>>
       ELSE /\ df_ts' = Derive(ts, ma_window)
            /\ IF DecompEligible(Len(ts))
               THEN \E res \in {"ok"} \cup DecompErrors :
                      /\ decomp' = IF res = "ok" THEN "ok" ELSE "failed"
                      /\ page' = page \o <<<<"chart", "timeseries">>>> \o
                            (IF res = "ok"
                             THEN <<<<"chart", "decomposition">>>>
                             ELSE <<<<"info", "decomposition_not_available",
                                      res>>>>)
               ELSE /\ decomp' = "none"
                    /\ page' = Append(page, <<"chart", "timeseries">>)
    /\ pc' = "export"
    /\ UNCHANGED <<now, cache, net, country, metric, ma_window, df, hist, ts,
                   csv>>

\* lines 218-224
Export ==
    /\ pc = "export"
    /\ csv' = ToCsv(df)
    /\ page' = page \o <<<<"download", "covid_summary.csv">>, <<"caption">>>>
    /\ pc' = "done"
    /\ UNCHANGED <<now, cache, net, country, metric, ma_window, df, hist, ts,
                   df_ts, decomp>>

\* a user interaction starts the script again from the top: everything the
\* run built is rebuilt, and the widgets are read again in RenderSummary
Rerun ==
    /\ pc \in {"done", "stopped"}
    /\ pc' = "start"
    /\ net' = <<>>
    /\ df' = EmptyDF
    /\ hist' = <<>>
    /\ ts' = <<>>
    /\ df_ts' = <<>>
    /\ decomp' = "none"
    /\ csv' = NoCsv
    /\ page' = <<>>
    /\ country' = "Global"
    /\ metric' = "cases"
    /\ ma_window' = SliderDefault
    /\ UNCHANGED <<now, cache>>

\* time passes between render cycles
Tick ==
    /\ pc \in {"done", "stopped"}
    /\ now < MaxTick * TickSeconds
    /\ now' = now + TickSeconds
    /\ UNCHANGED <<pc, cache, net, country, metric, ma_window, df, hist, ts,
                   df_ts, decomp, csv, page>>

LoadSummary == LoadSummaryFrom(SummaryTables)

RenderSummary == RenderSummaryWith(Metrics, Windows)

LoadHistoricalGlobal == LoadHistoricalGlobalFrom(GlobalBodies)

LoadHistoricalCountry == LoadHistoricalCountryFrom(CountryTimelines)

\* Spec: render cycles at one instant (no entry of the cache expires)
Next ==
    \/ LoadSummary
    \/ RenderSummary
    \/ LoadHistoricalGlobal
    \/ LoadHistoricalCountry
    \/ RenderTimeSeries
    \/ Export
    \/ Rerun

Spec == Init /\ [][Next]_vars

(***************************************************************************)
(* SpecCache: render cycles with the clock, over small answers: two        *)
(* versions of each answer, so that a stale entry differs from a fresh one.*)
(***************************************************************************)
SmallTable(n) ==
    [columns |-> BareColumns,
     rows |-> <<Restrict(SummaryRow("A", n, "AA"), BareColumns)>>]

SmallTables == {SmallTable(1), SmallTable(2)}

SmallSeries(n) == [k \in {ApiKey(1, 1, 21), ApiKey(1, 2, 21)} |->
                     IF k = ApiKey(1, 1, 21) THEN n ELSE n + 1]

SmallTimelines == {[cases |-> SmallSeries(n)] : n \in {1, 2}}

SmallGlobalBodies == {<<b>> : b \in CountryBodies("A", SmallTimelines)}

CacheLoadSummary == LoadSummaryFrom(SmallTables)

CacheRenderSummary == RenderSummaryWith({"cases"}, {SliderDefault})

CacheLoadHistoricalGlobal == LoadHistoricalGlobalFrom(SmallGlobalBodies)

CacheLoadHistoricalCountry == LoadHistoricalCountryFrom(SmallTimelines)

NextCache ==
    \/ CacheLoadSummary
    \/ CacheRenderSummary
    \/ CacheLoadHistoricalGlobal
    \/ CacheLoadHistoricalCountry
    \/ RenderTimeSeries
    \/ Export
    \/ Rerun
    \/ Tick

SpecCache == Init /\ [][NextCache]_vars


(***************************************************************************)
(* Claims about the transforms (checked under SpecSeries).                 *)
(***************************************************************************)
\* the metric series the Global answer holds, one per contributing country
InputSeries == HistList(hist, metric)

DateOf(k) == ParseDate(k).date

\* the calendar dates a country's series has an entry for
DatesOf(s) == {DateOf(k) : k \in DOMAIN s}

\* a country's cumulative value at a date, 0 where it has no entry
ValueAt(s, d) ==
    IF d \in DatesOf(s) THEN s[CHOOSE k \in DOMAIN s : DateOf(k) = d] ELSE 0

RECURSIVE SumAt(_, _, _)
SumAt(list, d, n) ==
    IF n = 0 THEN 0 ELSE SumAt(list, d, n - 1) + ValueAt(list[n], d)

RECURSIVE SumRange(_, _, _)
SumRange(x, lo, hi) ==
    IF hi < lo THEN 0 ELSE SumRange(x, lo, hi - 1) + x[hi]

Max(a, b) == IF a >= b THEN a ELSE b

\* no date is written in two ways among the keys
OneKeyPerDate(keys) ==
    \A k1 \in keys : \A k2 \in keys : DateOf(k1) = DateOf(k2) => k1 = k2

\* C3: the Global series has one entry per calendar date of the union of the
\* countries' dates, in ascending date order, and its value at a date is the
\* sum over the countries of the country's value at that date, 0 where the
\* country has no entry for the date.
C3_GlobalSumPerDate ==
    pc \in {"normalized", "derived"} =>
        /\ \A i \in 1..Len(ts) : \A j \in 1..Len(ts) :
              i < j => ts[i].date < ts[j].date
        /\ {ts[i].date : i \in 1..Len(ts)}
              = UNION {DatesOf(InputSeries[c]) : c \in 1..Len(InputSeries)}
        /\ \A i \in 1..Len(ts) :
              ts[i].value = SumAt(InputSeries, ts[i].date, Len(InputSeries))

\* C3 on the answers that write every date in one way only: there the code
\* does what C3 says.
C3_HoldsForUniformKeys ==
    (pc \in {"normalized", "derived"}
        /\ OneKeyPerDate(ConcatIndex(InputSeries))) =>
        /\ \A i \in 1..Len(ts) : \A j \in 1..Len(ts) :
              i < j => ts[i].date < ts[j].date
        /\ {ts[i].date : i \in 1..Len(ts)}
              = UNION {DatesOf(InputSeries[c]) : c \in 1..Len(InputSeries)}
        /\ \A i \in 1..Len(ts) :
              ts[i].value = SumAt(InputSeries, ts[i].date, Len(InputSeries))

\* C5: the derived table has the length and the dates of the cumulative
\* series; the first daily delta is 0 and every later one is the difference
\* of the cumulative value with the previous one.
C5_DailyDelta ==
    pc = "derived" =>
        /\ Len(df_ts) = Len(ts)
        /\ \A i \in 1..Len(ts) :
              /\ df_ts[i].date = ts[i].date
              /\ df_ts[i].value = ts[i].value
              /\ df_ts[i].new =
                    IF i = 1 THEN 0 ELSE ts[i].value - ts[i - 1].value

C5_Witness ==
    /\ pc = "derived"
    /\ Len(df_ts) >= 3
    /\ df_ts[2].new > 0
    /\ df_ts[3].new < 0

\* C6: for every window w of the slider and every row i, the moving average
\* is defined and is the arithmetic mean of the daily deltas of rows
\* max(1, i-w+1)..i; for w = 1 it is the daily delta itself.
C6_MovingAverage ==
    pc = "derived" =>
        \A i \in 1..Len(df_ts) :
            LET lo == Max(1, i - ma_window + 1)
                new == [j \in 1..Len(df_ts) |-> df_ts[j].new]
            IN  /\ ~df_ts[i].ma.nan
                /\ df_ts[i].ma.den > 0
                /\ df_ts[i].ma.num * (i - lo + 1)
                      = SumRange(new, lo, i) * df_ts[i].ma.den
                /\ ma_window = 1 =>
                      df_ts[i].ma.num = df_ts[i].new * df_ts[i].ma.den

\* a series longer than its window, with deltas that differ
C6_Witness ==
    /\ pc = "derived"
    /\ ma_window = SliderDefault
    /\ Len(df_ts) > SliderDefault + 1
    /\ df_ts[Len(df_ts)].new # df_ts[Len(df_ts) - SliderDefault].new

\* a country's values do not decrease as its dates grow
NonDecreasing(s) ==
    \A k1 \in DOMAIN s : \A k2 \in DOMAIN s :
        DateOf(k1) <= DateOf(k2) => s[k1] <= s[k2]

\* a country has an entry for every key of the union from its first date on
NoGapAfterFirst(s, index) ==
    \A k \in index :
        (\E k0 \in DOMAIN s : DateOf(k0) <= DateOf(k)) => k \in DOMAIN s

DeltasNonNegative ==
    /\ \A i \in 2..Len(ts) : ts[i - 1].value <= ts[i].value
    /\ \A i \in 1..Len(df_ts) : df_ts[i].new >= 0

\* C10 as stated: if every country's series is non-decreasing in date order,
\* the Global series is non-decreasing and every daily delta is >= 0.
\* Stated on the answers that write every date in one way, where the Global
\* series has one entry per date.
C10_MonotoneAsStated ==
    (pc = "derived"
        /\ OneKeyPerDate(ConcatIndex(InputSeries))
        /\ \A c \in 1..Len(InputSeries) : NonDecreasing(InputSeries[c]))
    => DeltasNonNegative

\* C10 amended: if moreover every country has an entry for every date key of
\* the union that is not earlier than the country's first date, the Global
\* series is non-decreasing and every daily delta is >= 0.
C10_MonotoneWithoutGaps ==
    (pc = "derived"
        /\ \A c \in 1..Len(InputSeries) :
              /\ NonDecreasing(InputSeries[c])
              /\ NoGapAfterFirst(InputSeries[c], ConcatIndex(InputSeries)))
    => DeltasNonNegative

\* two countries, the second reporting from a later date on, a rising sum
C10_Witness ==
    /\ pc = "derived"
    /\ Len(InputSeries) = 2
    /\ DOMAIN InputSeries[1] # DOMAIN InputSeries[2]
    /\ \A c \in 1..Len(InputSeries) :
          /\ NonDecreasing(InputSeries[c])
          /\ NoGapAfterFirst(InputSeries[c], ConcatIndex(InputSeries))
    /\ Len(df_ts) >= 3
    /\ df_ts[3].new > 0

(***************************************************************************)
(* Claims about the page (checked under Spec) and the cache (SpecCache).   *)
(***************************************************************************)
\* the page holds an element of this kind for this section
Shown(kind, section) ==
    \E i \in 1..Len(page) :
        Len(page[i]) >= 2 /\ page[i][1] = kind /\ page[i][2] = section

ShownPlain(kind) == \E i \in 1..Len(page) : page[i][1] = kind

\* the summary request of this cycle failed
SummaryFailed ==
    \E i \in 1..Len(net) : net[i].key = SummaryKey /\ net[i].status # "ok"

\* the historical request of this cycle failed
HistRequestFailed ==
    \E i \in 1..Len(net) : net[i].key # SummaryKey /\ net[i].status # "ok"

\* the run is past the historical section
PastHistorical == pc \in {"timeseries", "export", "done"}

\* the selected metric's mapping in one historical object
MetricMapping(obj) == Get(Get(obj, "timeline", EmptyDict), metric, EmptyDict)

\* the date keys the time-series section reads
SelectedKeys ==
    IF country = "Global"
    THEN UNION {DOMAIN MetricMapping(hist[c]) : c \in 1..Len(hist)}
    ELSE DOMAIN MetricMapping(hist)

SummaryVisualsShown ==
    /\ ShownPlain("kpi")
    /\ ShownPlain("corr")
    /\ ShownPlain("scatter")
    /\ ShownPlain("map")

NoTimeSeriesOutput ==
    /\ ts = <<>>
    /\ df_ts = <<>>
    /\ decomp = "none"
    /\ ~Shown("chart", "timeseries")
    /\ ~Shown("chart", "decomposition")

\* C1: when the summary fetch fails (status, transport or timeout) the page
\* shows the error and the run stops: no other section is rendered, nothing
\* is exported and no historical request is sent in that cycle.
C1_SummaryFailureHalts ==
    SummaryFailed =>
        /\ pc = "stopped"
        /\ Len(page) = 1
        /\ page[1][1] = "error"
        /\ page[1][2] = "summary"
        /\ Len(net) = 1
        /\ NoTimeSeriesOutput
        /\ csv = NoCsv

C1_Witness ==
    /\ pc = "stopped"
    /\ SummaryFailed
    /\ net[1].status = "timeout"

\* C2: when the summary was loaded and the time-series path fails (the
\* historical request fails, or a date key of the selected metric does not
\* match the format), no series is produced, not even from the keys that do
\* match; the section shows an error; nothing is derived or decomposed; the
\* summary visuals stay and the CSV export is rendered.
TimeSeriesFailed ==
    \/ HistRequestFailed
    \/ \E k \in SelectedKeys : ~ParseDate(k).ok

C2_TimeSeriesFailureIsLocal ==
    (PastHistorical /\ TimeSeriesFailed) =>
        /\ NoTimeSeriesOutput
        /\ Shown("error", "historical")
        /\ SummaryVisualsShown
        /\ pc = "done" =>
              /\ Shown("download", "covid_summary.csv")
              /\ csv = ToCsv(df)

\* a cycle that ended with a key in another format among keys that match
C2_Witness ==
    /\ pc = "done"
    /\ ~HistRequestFailed
    /\ \E k \in SelectedKeys : ~ParseDate(k).ok
    /\ \E k \in SelectedKeys : ParseDate(k).ok
    /\ Shown("download", "covid_summary.csv")

\* C4: the decomposition is attempted exactly when the daily-delta series
\* has at least 30 rows (not at 29); a failure of an attempt is shown as
\* "decomposition not available" with its reason, and the export section is
\* rendered all the same.
C4_DecompositionGate ==
    pc \in {"export", "done"} =>
        /\ decomp # "none" <=> Len(df_ts) >= 30
        /\ decomp = "ok" => Shown("chart", "decomposition")
        /\ decomp = "failed" =>
              /\ \E i \in 1..Len(page) :
                    /\ Len(page[i]) = 3
                    /\ page[i][1] = "info"
                    /\ page[i][2] = "decomposition_not_available"
                    /\ page[i][3] \in DecompErrors
              /\ ~Shown("chart", "decomposition")
        /\ decomp = "none" =>
              /\ ~Shown("chart", "decomposition")
              /\ ~Shown("info", "decomposition_not_available")
        /\ pc = "done" => Shown("download", "covid_summary.csv")

\* a failed attempt on a series of exactly 30 rows, and the export after it
C4_Witness ==
    /\ pc = "done"
    /\ Len(df_ts) = 30
    /\ decomp = "failed"
    /\ Shown("download", "covid_summary.csv")

\* a series of 29 rows, rendered without an attempt
C4_Witness29 ==
    /\ pc = "done"
    /\ Len(df_ts) = 29
    /\ decomp = "none"

\* C7: when the historical answer was loaded and the selected metric's
\* mapping is absent or empty (for Global: in every country), the series is
\* empty, a no-data notice is shown, no error is shown, and nothing is
\* charted, derived or decomposed.
MetricAbsentOrEmpty == SelectedKeys = {}

C7_EmptyMetricIsNoData ==
    (PastHistorical /\ ~HistRequestFailed /\ MetricAbsentOrEmpty) =>
        /\ NoTimeSeriesOutput
        /\ ~ShownPlain("error")
        /\ country = "Global" => Shown("info", "no_historical")
        /\ pc \in {"export", "done"} => Shown("info", "no_timeseries")

\* an empty mapping for one country, the run completed
C7_Witness ==
    /\ pc = "done"
    /\ country # "Global"
    /\ metric = "deaths"
    /\ "deaths" \in DOMAIN Get(hist, "timeline", EmptyDict)
    /\ MetricAbsentOrEmpty
    /\ Shown("info", "no_timeseries")

\* C9: the exported CSV has the columns of the summary table the summary
\* fetch returned, and one row per row of it.
C9_CsvIsRawSummary ==
    pc = "done" =>
        /\ csv.header = cache[SummaryKey].value.columns
        /\ Len(csv.rows) = Len(cache[SummaryKey].value.rows)

\* C8: a loader call whose key has an entry younger than one hour returns the
\* entry's value and sends no request; any other call sends exactly one
\* request, whose answer is stored on success and not stored on failure; no
\* request is repeated within a render cycle.
IsLoaderStep ==
    \/ pc = "start" /\ pc' \in {"render", "stopped"}
    \/ pc = "historical" /\ pc' = "timeseries"

CallKey ==
    IF pc = "start" THEN SummaryKey
    ELSE IF country = "Global" THEN GlobalKey("all")
    ELSE CountryKey(country, "all")

FreshBefore == CallKey \in DOMAIN cache /\ now - cache[CallKey].stored < 3600

C8_CacheContract ==
    [][IsLoaderStep =>
        LET returned == IF pc = "start" THEN df' ELSE hist'
            last == net'[Len(net')]
        IN  /\ FreshBefore =>
                  /\ net' = net
                  /\ cache' = cache
                  /\ returned = cache[CallKey].value
            /\ ~FreshBefore =>
                  /\ Len(net') = Len(net) + 1
                  /\ last.key = CallKey
                  /\ last.status = "ok" =>
                        /\ DOMAIN cache' = DOMAIN cache \cup {CallKey}
                        /\ cache'[CallKey] = [value |-> returned, stored |-> now]
                        /\ \A k \in DOMAIN cache \ {CallKey} :
                              cache'[k] = cache[k]
                  /\ last.status # "ok" => cache' = cache
            /\ \A i \in 1..Len(net') : \A j \in 1..Len(net') :
                  i # j => net'[i].key # net'[j].key]_vars

\* a later cycle served both loaders from the cache: time has passed, the
\* entries are younger than an hour, no request was sent
C8_Witness ==
    /\ pc = "timeseries"
    /\ now > 0
    /\ Len(net) = 0
    /\ Len(ts) > 0

\* an entry that has expired, and the request that replaced it
C8_WitnessExpired ==
    /\ pc = "render"
    /\ Len(net) = 1
    /\ net[1].status = "ok"
    /\ cache[SummaryKey].stored >= 3600

====
